---- MODULE Spec2Model ----
(***************************************************************************)
(* Model of BackgroundWorker (src/new/background_worker.py): two input     *)
(* listeners appending events to two in-memory lists, a data thread that   *)
(* posts the lists every interval, and the start()/stop() lifecycle.       *)
(*                                                                         *)
(* Threads of the model:                                                   *)
(*   - the mouse listener thread and the keyboard listener thread, each    *)
(*     running one callback at a time (build the event dict, then append); *)
(*   - the data thread running send_data, one step per access to shared    *)
(*     state (a statement that touches only locals is part of the next     *)
(*     step);                                                              *)
(*   - one caller executing start() and one caller executing stop(), one   *)
(*     step per statement, so the two calls can overlap.                   *)
(*                                                                         *)
(* An event's payload (x, y, button, dx, dy) does not influence control    *)
(* flow; an event is represented by its 'type', its 'timestamp' (a fresh   *)
(* clock reading) and, for key events, its normalised 'key'.               *)
(*                                                                         *)
(* Specifications:                                                         *)
(*   Spec      the worker alone, start() and stop() called at any moment;  *)
(*   FairSpec  Spec with the data thread and the caller of stop() kept     *)
(*             running, for termination;                                   *)
(*   AppSpec   the worker held by WindowsApp (src/new/windows_app.py),     *)
(*             start() and stop() called by its two signal handlers only.  *)
(***************************************************************************)
EXTENDS Integers, Sequences, FiniteSets, TLC

\* ---- bounds of the model ----
MaxEvents == 2      \* callbacks invoked by the OS over a run
MaxCalls == 3       \* start() and stop() calls over a run
MaxFailures == 1    \* posts that raise a RequestException over a run
MaxSignals == 3     \* start signals and logouts handled by a WindowsApp over a run

\* ---- values given at construction (background_worker.py:96) ----
session_id == "test_session"
user_id == 1

\* keys delivered by pynput: a KeyCode with a printable char, or a special Key
Keys == {[kind |-> "KeyCode", char |-> "a"], [kind |-> "Key", name |-> "shift"]}

VARIABLES
    stop_event,         \* self._stop_event.is_set()
    mouse_listener,     \* thread state of self.mouse_listener
    keyboard_listener,  \* thread state of self.keyboard_listener
    mouse_events,       \* self.mouse_events
    keyboard_events,    \* self.keyboard_events
    mouse_cb,           \* event dict built by a running mouse callback, not yet appended
    keyboard_cb,        \* event dict built by a running keyboard callback, not yet appended
    clock,              \* last value returned by time.time()
    data_thread,        \* self.data_thread: "unset", "created", "alive", "finished"
    flushPc,            \* position of the data thread in send_data
    data_to_send,       \* local of send_data: None, or a dict holding the two list objects
    body,               \* JSON body serialised by requests.post, None when no post is in flight
    posts,              \* history: every post made, with its outcome
    startPc,            \* position of the caller inside start()
    stopPc,             \* position of the caller inside stop()
    calls,              \* history: the start()/stop() calls in order of beginning, with their outcome
    h,                  \* history flags used to state the properties
    app                 \* the WindowsApp that holds the worker (windows_app.py)

\* the variables of one BackgroundWorker
workerVars == <<stop_event, mouse_listener, keyboard_listener, mouse_events,
                keyboard_events, mouse_cb, keyboard_cb, clock, data_thread, flushPc,
                data_to_send, body, posts, startPc, stopPc, calls, h>>

vars == <<workerVars, app>>

bufferVars == <<mouse_events, keyboard_events>>
callbackVars == <<mouse_cb, keyboard_cb, clock>>
listenerVars == <<mouse_listener, keyboard_listener>>
flushVars == <<flushPc, data_to_send, body, posts>>
callVars == <<startPc, stopPc, calls>>

None == [none |-> TRUE]

\* History flags (h), not program state:
\*   quietSinceWake    no list.append has happened since the data thread last woke
\*                     (woke: its sleep ended and it looked at the two lists)
\*   idleCycle         the current flush cycle began with quietSinceWake, i.e. no
\*                     event was recorded between the previous wakeup and this one
\*   postsThisCycle    posts completed (returned or raised) since the last wakeup
\*   timerAfterSignal  a sleep of the data thread ran to its end after the running
\*                     stop() call had set the stop event

\* ---------------------------------------------------------------------
\* BackgroundWorker.__init__
\* ---------------------------------------------------------------------
Init ==
    /\ stop_event = FALSE
    /\ mouse_listener = "new"
    /\ keyboard_listener = "new"
    /\ mouse_events = <<>>
    /\ keyboard_events = <<>>
    /\ mouse_cb = None
    /\ keyboard_cb = None
    /\ clock = 0
    /\ data_thread = "unset"
    /\ flushPc = "none"
    /\ data_to_send = None
    /\ body = None
    /\ posts = <<>>
    /\ startPc = "idle"
    /\ stopPc = "idle"
    /\ calls = <<>>
    /\ h = [quietSinceWake |-> FALSE, idleCycle |-> FALSE, postsThisCycle |-> 0,
            timerAfterSignal |-> FALSE]
    /\ app = [background_worker |-> None, pc |-> "idle", handled |-> 0,
              created |-> 0, live |-> 0, notices |-> 0, fatal |-> FALSE]

\* ---------------------------------------------------------------------
\* Capture callbacks.  Each callback first evaluates its argument (the
\* event dict, reading time.time()) and then calls list.append; the
\* listener thread can be preempted between the two.
\* ---------------------------------------------------------------------
PointerEvent(type) == [type |-> type, timestamp |-> clock + 1]

\* key.char for a KeyCode; a special Key has no 'char' attribute
\* (AttributeError) and is rendered with str(key)
KeyName(key) == IF key.kind = "KeyCode" THEN key.char ELSE "Key." \o key.name

KeyEvent(type, key) == [type |-> type, key |-> KeyName(key), timestamp |-> clock + 1]

MouseCallback(type) ==
    /\ mouse_listener = "running"
    /\ mouse_cb = None
    /\ clock < MaxEvents
    /\ mouse_cb' = PointerEvent(type)
    /\ clock' = clock + 1
    /\ UNCHANGED <<stop_event, listenerVars, bufferVars, keyboard_cb, data_thread,
                   flushVars, callVars, h, app>>

on_move == MouseCallback("move")

on_click == MouseCallback("click")

on_scroll == MouseCallback("scroll")

KeyboardCallback(type) ==
    /\ keyboard_listener = "running"
    /\ keyboard_cb = None
    /\ clock < MaxEvents
    /\ \E key \in Keys : keyboard_cb' = KeyEvent(type, key)
    /\ clock' = clock + 1
    /\ UNCHANGED <<stop_event, listenerVars, bufferVars, mouse_cb, data_thread,
                   flushVars, callVars, h, app>>

on_press == KeyboardCallback("press")

on_release == KeyboardCallback("release")

\* MouseAppend under a lock that send_data would hold from the post to the resets
MouseAppend_Locked ==
    /\ mouse_cb # None
    /\ ~(data_thread = "alive" /\ flushPc \in {"send", "wait", "reset_mouse", "reset_keyboard"})
    /\ mouse_events' = Append(mouse_events, mouse_cb)
    /\ mouse_cb' = None
    /\ h' = [h EXCEPT !.quietSinceWake = FALSE]
    /\ UNCHANGED <<stop_event, listenerVars, keyboard_events, keyboard_cb, clock,
                   data_thread, flushVars, callVars, app>>

\* self.mouse_events.append(...) of the running mouse callback
MouseAppend ==
    /\ mouse_cb # None
    /\ mouse_events' = Append(mouse_events, mouse_cb)
    /\ mouse_cb' = None
    /\ h' = [h EXCEPT !.quietSinceWake = FALSE]
    /\ UNCHANGED <<stop_event, listenerVars, keyboard_events, keyboard_cb, clock,
                   data_thread, flushVars, callVars, app>>

\* self.keyboard_events.append(...) of the running keyboard callback
KeyboardAppend ==
    /\ keyboard_cb # None
    /\ keyboard_events' = Append(keyboard_events, keyboard_cb)
    /\ keyboard_cb' = None
    /\ h' = [h EXCEPT !.quietSinceWake = FALSE]
    /\ UNCHANGED <<stop_event, listenerVars, mouse_events, mouse_cb, clock,
                   data_thread, flushVars, callVars, app>>

\* ---------------------------------------------------------------------
\* send_data, run by the data thread.  flushPc:
\*   "check"  while not self._stop_event.is_set()
\*   "sleep"  time.sleep(5), then the test of the two lists and data_to_send = {...}
\*   "send"   requests.post(...) called, body not yet serialised
\*   "wait"   body serialised, request in flight
\*   "reset_mouse", "reset_keyboard"   the two assignments after the post
\*   "done"   send_data returned
\* ---------------------------------------------------------------------

\* FlushCheck with a loop that does not test the stop event (while True)
FlushCheck_Forever ==
    /\ data_thread = "alive"
    /\ flushPc = "check"
    /\ flushPc' = "sleep"
    /\ UNCHANGED <<stop_event, listenerVars, bufferVars, callbackVars, data_thread,
                   data_to_send, body, posts, callVars, h, app>>

\* while not self._stop_event.is_set(): leave the loop, or go on to the sleep
FlushCheck ==
    /\ data_thread = "alive"
    /\ flushPc = "check"
    /\ IF stop_event
         THEN /\ flushPc' = "done"
              /\ data_thread' = "finished"
         ELSE /\ flushPc' = "sleep"
              /\ UNCHANGED data_thread
    /\ UNCHANGED <<stop_event, listenerVars, bufferVars, callbackVars, data_to_send,
                   body, posts, callVars, h, app>>

\* the dict built by send_data holds the two list objects themselves, not copies
Batch == [session_id |-> session_id, user_id |-> user_id,
          mouse_data |-> "self.mouse_events",
          keyboard_data |-> "self.keyboard_events"]

WakeHistory == [h EXCEPT !.idleCycle = h.quietSinceWake,
                         !.quietSinceWake = TRUE,
                         !.postsThisCycle = 0,
                         !.timerAfterSignal = @ \/ (stop_event /\ stopPc # "idle")]

\* FlushWake without the emptiness test: a batch is built on every wakeup
FlushWake_NoSkip ==
    /\ data_thread = "alive"
    /\ flushPc = "sleep"
    /\ data_to_send' = Batch
    /\ flushPc' = "send"
    /\ h' = WakeHistory
    /\ UNCHANGED <<stop_event, listenerVars, bufferVars, callbackVars, data_thread,
                   body, posts, callVars, app>>

\* time.sleep(5) returns (only the expiry of the interval ends the sleep);
\* if self.mouse_events or self.keyboard_events: data_to_send = {...}
FlushWake ==
    /\ data_thread = "alive"
    /\ flushPc = "sleep"
    /\ IF mouse_events # <<>> \/ keyboard_events # <<>>
         THEN /\ data_to_send' = Batch
              /\ flushPc' = "send"
         ELSE /\ flushPc' = "check"
              /\ UNCHANGED data_to_send
    /\ h' = WakeHistory
    /\ UNCHANGED <<stop_event, listenerVars, bufferVars, callbackVars, data_thread,
                   body, posts, callVars, app>>

\* what json.dumps(data_to_send) yields at this moment
Serialise(d) ==
    [session_id |-> d.session_id, user_id |-> d.user_id,
     mouse_data |-> mouse_events, keyboard_data |-> keyboard_events]

\* requests.post serialises the body (the lists as they are now) and sends it
FlushSend ==
    /\ data_thread = "alive"
    /\ flushPc = "send"
    /\ body' = Serialise(data_to_send)
    /\ data_to_send' = None
    /\ flushPc' = "wait"
    /\ UNCHANGED <<stop_event, listenerVars, bufferVars, callbackVars, data_thread,
                   posts, callVars, h, app>>

\* requests.post returns a response; its status is not looked at
FlushPostReturn ==
    /\ data_thread = "alive"
    /\ flushPc = "wait"
    /\ \E outcome \in {"ok", "http_error"} :
           posts' = Append(posts, [body |-> body, outcome |-> outcome])
    /\ body' = None
    /\ flushPc' = "reset_mouse"
    /\ h' = [h EXCEPT !.postsThisCycle = @ + 1]
    /\ UNCHANGED <<stop_event, listenerVars, bufferVars, callbackVars, data_thread,
                   data_to_send, callVars, app>>

\* FlushPostRaise with the batch dropped on failure (a drain-then-send loop)
FlushPostRaise_Discard ==
    /\ data_thread = "alive"
    /\ flushPc = "wait"
    /\ Cardinality({i \in DOMAIN posts : posts[i].outcome = "exception"}) < MaxFailures
    /\ posts' = Append(posts, [body |-> body, outcome |-> "exception"])
    /\ body' = None
    /\ mouse_events' = <<>>
    /\ keyboard_events' = <<>>
    /\ flushPc' = "check"
    /\ h' = [h EXCEPT !.postsThisCycle = @ + 1]
    /\ UNCHANGED <<stop_event, listenerVars, callbackVars, data_thread,
                   data_to_send, callVars, app>>

\* FlushPostRaise without the except clause: the exception ends send_data
FlushPostRaise_Uncaught ==
    /\ data_thread = "alive"
    /\ flushPc = "wait"
    /\ Cardinality({i \in DOMAIN posts : posts[i].outcome = "exception"}) < MaxFailures
    /\ posts' = Append(posts, [body |-> body, outcome |-> "exception"])
    /\ body' = None
    /\ flushPc' = "done"
    /\ data_thread' = "finished"
    /\ h' = [h EXCEPT !.postsThisCycle = @ + 1]
    /\ UNCHANGED <<stop_event, listenerVars, bufferVars, callbackVars,
                   data_to_send, callVars, app>>

\* requests.post raises a RequestException: print and go round the loop
FlushPostRaise ==
    /\ data_thread = "alive"
    /\ flushPc = "wait"
    /\ Cardinality({i \in DOMAIN posts : posts[i].outcome = "exception"}) < MaxFailures
    /\ posts' = Append(posts, [body |-> body, outcome |-> "exception"])
    /\ body' = None
    /\ flushPc' = "check"
    /\ h' = [h EXCEPT !.postsThisCycle = @ + 1]
    /\ UNCHANGED <<stop_event, listenerVars, bufferVars, callbackVars, data_thread,
                   data_to_send, callVars, app>>

\* self.mouse_events = []
FlushResetMouse ==
    /\ data_thread = "alive"
    /\ flushPc = "reset_mouse"
    /\ mouse_events' = <<>>
    /\ flushPc' = "reset_keyboard"
    /\ UNCHANGED <<stop_event, listenerVars, keyboard_events, callbackVars, data_thread,
                   data_to_send, body, posts, callVars, h, app>>

\* FlushResetKeyboard with the assignment left out: the key list is not rebound
FlushResetKeyboard_Keep ==
    /\ data_thread = "alive"
    /\ flushPc = "reset_keyboard"
    /\ flushPc' = "check"
    /\ UNCHANGED <<stop_event, listenerVars, bufferVars, callbackVars, data_thread,
                   data_to_send, body, posts, callVars, h, app>>

\* self.keyboard_events = []
FlushResetKeyboard ==
    /\ data_thread = "alive"
    /\ flushPc = "reset_keyboard"
    /\ keyboard_events' = <<>>
    /\ flushPc' = "check"
    /\ UNCHANGED <<stop_event, listenerVars, mouse_events, callbackVars, data_thread,
                   data_to_send, body, posts, callVars, h, app>>

\* ---------------------------------------------------------------------
\* start() and stop(), one step per statement.  A call is entered in
\* 'calls' when it begins; 'overlap' records that the other call was in
\* progress at some moment of this one.
\* ---------------------------------------------------------------------
LastCall(op) == CHOOSE i \in DOMAIN calls :
                    /\ calls[i].op = op
                    /\ \A j \in DOMAIN calls : calls[j].op = op => j <= i

Finish(op, result) == [calls EXCEPT ![LastCall(op)].result = result]

Begin(op, otherPc) ==
    LET marked == IF otherPc = "idle" THEN calls
                  ELSE [calls EXCEPT ![Len(calls)].overlap = TRUE]
    IN  Append(marked, [op |-> op, result |-> "pending", overlap |-> otherPc # "idle"])

\* start() is entered; self._stop_event.clear()
StartClear ==
    /\ startPc = "idle"
    /\ Len(calls) < MaxCalls
    /\ calls' = Begin("start", stopPc)
    /\ stop_event' = FALSE
    /\ startPc' = "mouse_start"
    /\ UNCHANGED <<listenerVars, bufferVars, callbackVars, data_thread, flushVars,
                   stopPc, h, app>>

\* self.mouse_listener.start(): a thread can be started only once
StartMouseListener ==
    /\ startPc = "mouse_start"
    /\ IF mouse_listener = "new"
         THEN /\ mouse_listener' = "running"
              /\ startPc' = "keyboard_start"
              /\ UNCHANGED calls
         ELSE /\ calls' = Finish("start", "RuntimeError")
              /\ startPc' = "idle"
              /\ UNCHANGED mouse_listener
    /\ UNCHANGED <<stop_event, keyboard_listener, bufferVars, callbackVars, data_thread,
                   flushVars, stopPc, h, app>>

\* self.keyboard_listener.start()
StartKeyboardListener ==
    /\ startPc = "keyboard_start"
    /\ IF keyboard_listener = "new"
         THEN /\ keyboard_listener' = "running"
              /\ startPc' = "create_thread"
              /\ UNCHANGED calls
         ELSE /\ calls' = Finish("start", "RuntimeError")
              /\ startPc' = "idle"
              /\ UNCHANGED keyboard_listener
    /\ UNCHANGED <<stop_event, mouse_listener, bufferVars, callbackVars, data_thread,
                   flushVars, stopPc, h, app>>

\* self.data_thread = threading.Thread(target=self.send_data)
StartCreateThread ==
    /\ startPc = "create_thread"
    /\ data_thread' = "created"
    /\ startPc' = "thread_start"
    /\ UNCHANGED <<stop_event, listenerVars, bufferVars, callbackVars, flushVars,
                   stopPc, calls, h, app>>

\* self.data_thread.start(); print; return
StartThread ==
    /\ startPc = "thread_start"
    /\ data_thread' = "alive"
    /\ flushPc' = "check"
    /\ calls' = Finish("start", "ok")
    /\ startPc' = "idle"
    /\ UNCHANGED <<stop_event, listenerVars, bufferVars, callbackVars, data_to_send,
                   body, posts, stopPc, h, app>>

\* stop() is entered; self._stop_event.set()
StopSet ==
    /\ stopPc = "idle"
    /\ Len(calls) < MaxCalls
    /\ calls' = Begin("stop", startPc)
    /\ stop_event' = TRUE
    /\ stopPc' = "mouse_stop"
    /\ h' = [h EXCEPT !.timerAfterSignal = FALSE]
    /\ UNCHANGED <<listenerVars, bufferVars, callbackVars, data_thread, flushVars,
                   startPc, app>>

\* Listener.stop(): tells a running listener to stop and returns: no further
\* event is delivered, but the listener thread is not joined, so a callback
\* that thread is already running still finishes.  On a listener that is not
\* running it does nothing.
ListenerStop(listener) == IF listener = "running" THEN "stopped" ELSE listener

\* self.mouse_listener.stop()
StopMouseListener ==
    /\ stopPc = "mouse_stop"
    /\ mouse_listener' = ListenerStop(mouse_listener)
    /\ stopPc' = "keyboard_stop"
    /\ UNCHANGED <<stop_event, keyboard_listener, bufferVars, callbackVars, data_thread,
                   flushVars, startPc, calls, h, app>>

\* StopKeyboardListener with the call left out: stop() goes on to the join
StopKeyboardListener_Skip ==
    /\ stopPc = "keyboard_stop"
    /\ stopPc' = "join"
    /\ UNCHANGED <<stop_event, listenerVars, bufferVars, callbackVars, data_thread,
                   flushVars, startPc, calls, h, app>>

\* self.keyboard_listener.stop()
StopKeyboardListener ==
    /\ stopPc = "keyboard_stop"
    /\ keyboard_listener' = ListenerStop(keyboard_listener)
    /\ stopPc' = "join"
    /\ UNCHANGED <<stop_event, mouse_listener, bufferVars, callbackVars, data_thread,
                   flushVars, startPc, calls, h, app>>

\* self.data_thread.join(); print; return.
\*   attribute never assigned      -> AttributeError
\*   thread created, not started   -> RuntimeError
\*   thread alive                  -> blocks until send_data returns
StopJoin ==
    /\ stopPc = "join"
    /\ data_thread # "alive"
    /\ calls' = Finish("stop", CASE data_thread = "unset" -> "AttributeError"
                                 [] data_thread = "created" -> "RuntimeError"
                                 [] OTHER -> "ok")
    /\ stopPc' = "idle"
    /\ UNCHANGED <<stop_event, listenerVars, bufferVars, callbackVars, data_thread,
                   flushVars, startPc, h, app>>

\* ---------------------------------------------------------------------
\* WindowsApp (windows_app.py).  start_signal and shutdown_signal are
\* connected in the Qt thread, so start_background_worker and logout run
\* there one after the other, never overlapping.  app:
\*   background_worker   self.background_worker: None, or the worker held
\*   pc                  "idle"   the event loop waits for a signal
\*                       "start"  in start_background_worker, at worker.start()
\*                       "stop"   in stop_background_worker, at worker.stop()
\*   handled             signals handled so far
\*   created, live, notices, fatal   history: workers constructed; workers
\*                       constructed and started whose stop() has not returned;
\*                       "already running" notices printed; an exception
\*                       escaped a handler
\* The worker variables describe the worker held by the app.  The worker is
\* built with session_id "windows_session" and user_id 1
\* (windows_app.py:46-47): the ids are carried into the body and never
\* tested.  app.quit() ends the event loop once the handlers already queued
\* have run, so a signal may still be handled after a logout.
\* ---------------------------------------------------------------------

\* the reference kept in self.background_worker (windows_app.py:46-47, 61)
HeldWorker == [session_id |-> "windows_session", user_id |-> 1]

\* BackgroundWorker(self.session_id, self.user_id): a new object
NewWorker ==
    /\ stop_event' = FALSE
    /\ mouse_listener' = "new"
    /\ keyboard_listener' = "new"
    /\ mouse_events' = <<>>
    /\ keyboard_events' = <<>>
    /\ mouse_cb' = None
    /\ keyboard_cb' = None
    /\ clock' = 0
    /\ data_thread' = "unset"
    /\ flushPc' = "none"
    /\ data_to_send' = None
    /\ body' = None
    /\ posts' = <<>>
    /\ startPc' = "idle"
    /\ stopPc' = "idle"
    /\ calls' = <<>>
    /\ h' = [quietSinceWake |-> FALSE, idleCycle |-> FALSE, postsThisCycle |-> 0,
             timerAfterSignal |-> FALSE]

\* start_background_worker without the test of self.background_worker
start_background_worker_NoGuard ==
    /\ app.pc = "idle"
    /\ ~app.fatal
    /\ app.handled < MaxSignals
    /\ NewWorker
    /\ app' = [app EXCEPT !.background_worker = HeldWorker,
                          !.pc = "start",
                          !.handled = @ + 1,
                          !.created = @ + 1,
                          !.live = @ + 1]

\* start_background_worker up to the call of start():
\*   if not self.background_worker: self.background_worker = BackgroundWorker(...)
\*   else: print("Background worker is already running.")
start_background_worker ==
    /\ app.pc = "idle"
    /\ ~app.fatal
    /\ app.handled < MaxSignals
    /\ IF app.background_worker = None
         THEN /\ NewWorker
              /\ app' = [app EXCEPT !.background_worker = HeldWorker,
                                    !.pc = "start",
                                    !.handled = @ + 1,
                                    !.created = @ + 1,
                                    !.live = @ + 1]
         ELSE /\ app' = [app EXCEPT !.handled = @ + 1, !.notices = @ + 1]
              /\ UNCHANGED workerVars

\* self.background_worker.start() is entered
WorkerStart ==
    /\ app.pc = "start"
    /\ calls = <<>>
    /\ StartClear

\* start() has returned (or raised) into start_background_worker
StartReturn ==
    /\ app.pc = "start"
    /\ calls # <<>>
    /\ startPc = "idle"
    /\ app' = [app EXCEPT !.pc = "idle",
                          !.fatal = calls[Len(calls)].result # "ok"]
    /\ UNCHANGED workerVars

\* logout -> stop_background_worker: if self.background_worker: ...
\* With no worker held only self.app.quit() runs.
logout ==
    /\ app.pc = "idle"
    /\ ~app.fatal
    /\ app.handled < MaxSignals
    /\ app' = [app EXCEPT !.handled = @ + 1,
                          !.pc = IF app.background_worker = None THEN "idle" ELSE "stop"]
    /\ UNCHANGED workerVars

\* self.background_worker.stop() is entered
WorkerStop ==
    /\ app.pc = "stop"
    /\ \A i \in DOMAIN calls : calls[i].op # "stop"
    /\ StopSet

\* stop() has returned: self.background_worker = None; self.app.quit()
\* (or stop() raised, and the reference is kept)
StopReturn ==
    /\ app.pc = "stop"
    /\ \E i \in DOMAIN calls : calls[i].op = "stop"
    /\ stopPc = "idle"
    /\ IF calls[Len(calls)].result = "ok"
         THEN app' = [app EXCEPT !.pc = "idle",
                                 !.background_worker = None,
                                 !.live = @ - 1]
         ELSE app' = [app EXCEPT !.pc = "idle", !.fatal = TRUE]
    /\ UNCHANGED workerVars

Next ==
    \/ on_move \/ on_click \/ on_scroll \/ on_press \/ on_release
    \/ MouseAppend \/ KeyboardAppend
    \/ FlushCheck \/ FlushWake \/ FlushSend
    \/ FlushPostReturn \/ FlushPostRaise \/ FlushResetMouse \/ FlushResetKeyboard
    \/ StartClear \/ StartMouseListener \/ StartKeyboardListener
    \/ StartCreateThread \/ StartThread
    \/ StopSet \/ StopMouseListener \/ StopKeyboardListener \/ StopJoin

Spec == Init /\ [][Next]_vars

\* Scheduling assumed for termination: the data thread keeps running (each
\* sleep ends, each post returns, each statement is executed) and so does
\* the caller inside stop().  Nothing is assumed of the callbacks, of
\* failing posts, or of further calls.
Fairness ==
    /\ WF_vars(FlushCheck) /\ WF_vars(FlushWake) /\ WF_vars(FlushSend)
    /\ WF_vars(FlushPostReturn)
    /\ WF_vars(FlushResetMouse) /\ WF_vars(FlushResetKeyboard)
    /\ WF_vars(StopMouseListener) /\ WF_vars(StopKeyboardListener)
    /\ WF_vars(StopJoin)

FairSpec == Spec /\ Fairness

\* the worker as driven by a WindowsApp: start() and stop() are called by
\* the signal handlers only
AppNext ==
    \/ start_background_worker \/ WorkerStart \/ StartReturn
    \/ logout \/ WorkerStop \/ StopReturn
    \/ StartMouseListener \/ StartKeyboardListener
    \/ StartCreateThread \/ StartThread
    \/ StopMouseListener \/ StopKeyboardListener \/ StopJoin
    \/ on_move \/ on_click \/ on_scroll \/ on_press \/ on_release
    \/ MouseAppend \/ KeyboardAppend
    \/ FlushCheck \/ FlushWake \/ FlushSend
    \/ FlushPostReturn \/ FlushPostRaise \/ FlushResetMouse \/ FlushResetKeyboard

AppSpec == Init /\ [][AppNext]_vars

\* ---------------------------------------------------------------------
\* Vocabulary of the properties
\* ---------------------------------------------------------------------
IsPrefix(s, t) == Len(s) <= Len(t) /\ SubSeq(t, 1, Len(s)) = s

Stamps(seq) == {seq[i].timestamp : i \in DOMAIN seq}

BodyStamps(b) == Stamps(b.mouse_data) \cup Stamps(b.keyboard_data)

\* events in the live buffer
Buffered == Stamps(mouse_events) \cup Stamps(keyboard_events)

\* events built by a callback that has not appended them yet
InCallback == {e.timestamp : e \in {mouse_cb, keyboard_cb} \ {None}}

\* events appended to a list at some moment of the run
Recorded == (1 .. clock) \ InCallback

\* number of successful transmissions that carried the event
Delivered(t) == Cardinality({i \in DOMAIN posts :
                                posts[i].outcome = "ok" /\ t \in BodyStamps(posts[i].body)})

NoFailure == \A i \in DOMAIN posts : posts[i].outcome = "ok"

Failed(i) == posts[i].outcome # "ok"

Raised(i) == posts[i].outcome = "exception"

LastRaised == posts # <<>> /\ Raised(Len(posts))

Done(i) == calls[i].result # "pending"

Alone(i) == ~calls[i].overlap

NoCallInProgress == startPc = "idle" /\ stopPc = "idle"

\* a start() has completed and no stop() has been entered since
Running == \E i \in DOMAIN calls :
               /\ calls[i].op = "start" /\ calls[i].result = "ok"
               /\ \A j \in DOMAIN calls : calls[j].op = "stop" => j < i

SourcesActive == mouse_listener = "running" /\ keyboard_listener = "running"

FlushActive == data_thread = "alive"

\* ---------------------------------------------------------------------
\* C1  No loss and no duplication: while no transmission has failed, every
\* recorded event is carried by at most one transmitted batch, and an event
\* that has left the buffer is carried by exactly one.
\* ---------------------------------------------------------------------
C1_NoLossNoDup ==
    NoFailure =>
        \A t \in Recorded :
            /\ Delivered(t) <= 1
            /\ t \notin Buffered => Delivered(t) = 1

Following(i) ==
    IF i < Len(posts) THEN posts[i + 1].body
    ELSE IF body # None THEN body
    ELSE [mouse_data |-> mouse_events, keyboard_data |-> keyboard_events]

C3_SecondStartIsNoOp ==
    \A i \in DOMAIN calls :
        ( /\ i + 1 = Len(calls)
          /\ calls[i].op = "start" /\ calls[i].result = "ok" /\ Alone(i)
          /\ calls[i + 1].op = "start" /\ Done(i + 1) /\ Alone(i + 1) )
        => /\ calls[i + 1].result = "ok"
           /\ SourcesActive
           /\ FlushActive

\* ---------------------------------------------------------------------
\* C4  Idempotent stop: a stop() on a collector that is Stopped (never
\* started, or stopped by the preceding call) returns normally and changes
\* no state.
\* ---------------------------------------------------------------------
C4_StopWhenStoppedIsNoOp ==
    /\ ( Len(calls) = 1 /\ calls[1].op = "stop" /\ Done(1) )
       => ( calls[1].result = "ok" /\ stop_event = FALSE )
    /\ \A i \in DOMAIN calls :
           ( /\ i + 1 \in DOMAIN calls
             /\ calls[i].op = "stop" /\ calls[i].result = "ok" /\ Alone(i)
             /\ calls[i + 1].op = "stop" /\ Done(i + 1) /\ Alone(i + 1) )
           => calls[i + 1].result = "ok"

\* ---------------------------------------------------------------------
\* C5  Cancellable wait: a stop() that has returned did not have to wait for
\* a sleep of the flush loop to run to its end after the stop signal.
\* ---------------------------------------------------------------------
C5_StopNeedsNoTimerExpiry ==
    ( /\ stopPc = "idle"
      /\ \E i \in DOMAIN calls : calls[i].op = "stop"
      /\ calls[LastCall("stop")].result = "ok"
      /\ Alone(LastCall("stop")) )
    => ~h.timerAfterSignal

\* stop() has returned normally after a completed start(), and no call has
\* been made since
StoppedAfterStart ==
    /\ NoCallInProgress
    /\ Len(calls) >= 2
    /\ calls[Len(calls)].op = "stop" /\ calls[Len(calls)].result = "ok"
    /\ Alone(Len(calls))
    /\ \E i \in DOMAIN calls : calls[i].op = "start" /\ calls[i].result = "ok"

\* ---------------------------------------------------------------------
\* C6  stop() is a blocking join: once a stop() that follows a start() has
\* returned, the flush task has terminated, no transmission is made and no
\* capture callback appends to the event buffer.
\* ---------------------------------------------------------------------
C6_QuiescentAfterStop ==
    [][ StoppedAfterStart =>
            /\ data_thread = "finished"
            /\ posts' = posts /\ body' = body
            /\ mouse_events' = mouse_events
            /\ keyboard_events' = keyboard_events ]_vars

\* the states a sequential start();stop() or stop();start() leaves
StoppedState ==
    /\ mouse_listener # "running" /\ keyboard_listener # "running"
    /\ data_thread \in {"unset", "finished"}

RunningState ==
    /\ SourcesActive /\ FlushActive /\ ~stop_event

\* ---------------------------------------------------------------------
\* C7  start() and stop() race-free: when a start() and a stop() overlap,
\* both return normally and the collector is left as by one of the two
\* sequential orders (Stopped, or Running).
\* ---------------------------------------------------------------------
C7_StartStopSerialisable ==
    ( /\ Len(calls) = 2 /\ NoCallInProgress
      /\ calls[1].op # calls[2].op
      /\ calls[1].overlap /\ calls[2].overlap )
    => /\ calls[1].result = "ok" /\ calls[2].result = "ok"
       /\ StoppedState \/ RunningState

\* the data thread is making a transmission in the current flush cycle
Transmitting == data_thread = "alive" /\ flushPc \in {"send", "wait"}

C9_RestartSucceeds ==
    \A i \in DOMAIN calls :
        ( /\ i + 2 = Len(calls)
          /\ calls[i].op = "start" /\ calls[i].result = "ok" /\ Alone(i)
          /\ calls[i + 1].op = "stop" /\ calls[i + 1].result = "ok" /\ Alone(i + 1)
          /\ calls[i + 2].op = "start" /\ Done(i + 2) /\ Alone(i + 2) )
        => /\ calls[i + 2].result = "ok"
           /\ SourcesActive
           /\ FlushActive

\* ---------------------------------------------------------------------
\* C10  A failed transmission does not end the flush task: while the
\* collector is Running and the latest transmission failed (exception or
\* error status), the data thread is alive inside its loop.
\* ---------------------------------------------------------------------
C10_FailureKeepsFlushAlive ==
    ( /\ Running
      /\ posts # <<>> /\ Failed(Len(posts)) )
    => /\ data_thread = "alive"
       /\ flushPc \in {"check", "sleep", "send", "wait", "reset_mouse", "reset_keyboard"}

\* a post raised while Running, an event was appended after the batch of the
\* failed post had been serialised, and the data thread reached its next wake
C10_Witness ==
    /\ Running
    /\ LastRaised
    /\ data_thread = "alive" /\ flushPc = "send"
    /\ h.postsThisCycle = 0
    /\ Buffered \ BodyStamps(posts[Len(posts)].body) # {}

\* the body that carries the two lists as they are now
BufferBody == [session_id |-> session_id, user_id |-> user_id,
               mouse_data |-> mouse_events, keyboard_data |-> keyboard_events]

\* the post of the current flush cycle has returned with a success status
CyclePostedOk ==
    /\ h.postsThisCycle = 1
    /\ posts # <<>> /\ posts[Len(posts)].outcome = "ok"

\* ---------------------------------------------------------------------
\* C11  Single successful flush: in a flush cycle during which no event is
\* appended, the request body is the construction-time session_id and
\* user_id with the two lists exactly as recorded (same events, same
\* order); the cycle makes one post, and once the post has returned with a
\* success status and the two resets have run both lists are empty.
\* ---------------------------------------------------------------------
C11_QuietCycleSendsBufferOnce ==
    (data_thread = "alive" /\ h.quietSinceWake) =>
        /\ h.postsThisCycle <= 1
        /\ flushPc = "wait" => (h.postsThisCycle = 0 /\ body = BufferBody)
        /\ (flushPc = "reset_mouse" /\ CyclePostedOk) =>
               posts[Len(posts)].body = BufferBody
        /\ (flushPc = "reset_keyboard" /\ CyclePostedOk) =>
               /\ posts[Len(posts)].body.session_id = session_id
               /\ posts[Len(posts)].body.user_id = user_id
               /\ posts[Len(posts)].body.keyboard_data = keyboard_events
               /\ mouse_events = <<>>
        /\ (flushPc = "check" /\ CyclePostedOk) =>
               /\ posts[Len(posts)].body.session_id = session_id
               /\ posts[Len(posts)].body.user_id = user_id
               /\ mouse_events = <<>> /\ keyboard_events = <<>>

\* a quiet cycle has posted one pointer event and one key event with
\* success and is back at the loop head with both lists empty
C11_Witness ==
    /\ data_thread = "alive" /\ flushPc = "check"
    /\ h.quietSinceWake /\ CyclePostedOk
    /\ Len(posts[Len(posts)].body.mouse_data) = 1
    /\ Len(posts[Len(posts)].body.keyboard_data) = 1
    /\ mouse_events = <<>> /\ keyboard_events = <<>>

\* a start signal is handled while the app holds a worker
StartSignalWhileHeld ==
    /\ app.pc = "idle"
    /\ app.background_worker # None
    /\ app'.handled = app.handled + 1
    /\ app'.pc # "stop"

\* ---------------------------------------------------------------------
\* C12  Host controller guard: under WindowsApp at most one worker is
\* started and not yet stopped at any time, and it is the worker the app
\* holds; no handler ends with an exception; a start signal handled while a
\* worker is held constructs no worker, calls start() on none (the worker
\* is left exactly as it is), keeps the reference and prints the notice.
\* ---------------------------------------------------------------------
C12_HostControllerGuard ==
    /\ [](/\ app.live <= 1
          /\ app.live = 1 <=> app.background_worker # None
          /\ ~app.fatal
          /\ \A i \in DOMAIN calls : calls[i].result \in {"pending", "ok"})
    /\ [][StartSignalWhileHeld =>
              /\ workerVars' = workerVars
              /\ app'.created = app.created
              /\ app'.live = app.live
              /\ app'.background_worker = app.background_worker
              /\ app'.notices = app.notices + 1
              /\ ~app'.fatal]_vars

\* a second start signal was answered with the notice while the first
\* worker, started and posting, is still held
C12_Witness ==
    /\ app.notices >= 1
    /\ app.background_worker # None
    /\ app.created = 1 /\ app.live = 1
    /\ data_thread = "alive" /\ posts # <<>>

\* ---------------------------------------------------------------------
\* C13  Stop is tested on wake: when the sleep of the data thread ends with
\* the stop signal set, the loop makes no transmission (it builds no batch
\* and goes on to leave the loop).
\* ---------------------------------------------------------------------
C13_NoTransmissionAfterStopSignal ==
    [][(stop_event /\ data_thread = "alive" /\ flushPc = "sleep") =>
           flushPc' # "send"]_vars

\* the content of the batch held by the flush cycle, read through the list
\* objects the dict refers to
BatchContent == Serialise(data_to_send)

\* ---------------------------------------------------------------------
\* C14  The batch does not alias the live buffer: from the construction of
\* the batch on, no step (in particular no append of a capture callback)
\* changes the pointer events or the key events of the batch.
\* ---------------------------------------------------------------------
C14_BatchNotAliased ==
    [][(data_to_send # None /\ data_to_send' # None) =>
           BatchContent' = BatchContent]_vars

\* the events of a list are in capture order (timestamps increase)
InCaptureOrder(seq) ==
    \A i, j \in DOMAIN seq : i < j => seq[i].timestamp < seq[j].timestamp

\* events carried by a post made so far
Posted == UNION {BodyStamps(posts[i].body) : i \in DOMAIN posts}

\* every transmitted batch lists its pointer events and its key events in
\* capture order
BatchesInCaptureOrder ==
    \A i \in DOMAIN posts :
        /\ InCaptureOrder(posts[i].body.mouse_data)
        /\ InCaptureOrder(posts[i].body.keyboard_data)

\* ---------------------------------------------------------------------
\* C15  Ordering: every transmitted batch lists its pointer events and its
\* key events in capture order, and no captured event is skipped between
\* batches: while no transmission has failed, the events captured and not
\* yet transmitted are all in the buffer, from which the next batch is
\* built.
\* ---------------------------------------------------------------------
C15_OrderedAndGapFree ==
    /\ BatchesInCaptureOrder
    /\ NoFailure => (Recorded \ Posted) \subseteq Buffered

\* ---------------------------------------------------------------------
\* C16  Lifecycle invariant: in every state in which no start() or stop()
\* call is in progress, the capture sources are active exactly when the
\* collector is Running, and the data thread is alive exactly when the
\* collector is Running.
\* ---------------------------------------------------------------------
C16_ActiveIffRunning ==
    NoCallInProgress =>
        /\ SourcesActive <=> Running
        /\ FlushActive <=> Running

\* ---------------------------------------------------------------------
\* C17  Capture callbacks never wait on the flush loop or the network: in
\* every state, whatever the data thread is doing, a callback that has
\* built its event can append it and return, and a running listener with no
\* callback in progress can enter any of its callbacks (as long as the
\* model has events left to deliver).
\* ---------------------------------------------------------------------
C17_CallbacksNeverWait ==
    /\ mouse_cb # None => ENABLED MouseAppend
    /\ keyboard_cb # None => ENABLED KeyboardAppend
    /\ (mouse_listener = "running" /\ mouse_cb = None /\ clock < MaxEvents) =>
           (ENABLED on_move /\ ENABLED on_click /\ ENABLED on_scroll)
    /\ (keyboard_listener = "running" /\ keyboard_cb = None /\ clock < MaxEvents) =>
           (ENABLED on_press /\ ENABLED on_release)

\* with both sources active and a request in flight, the buffer holds an
\* event that a callback appended after the body was serialised
C17_Witness ==
    /\ data_thread = "alive" /\ flushPc = "wait"
    /\ SourcesActive
    /\ Buffered \ BodyStamps(body) # {}

\* start() or stop() moves to the given position in this step
StartReaches(pc) == startPc # pc /\ startPc' = pc

StopReaches(pc) == stopPc # pc /\ stopPc' = pc

\* ---------------------------------------------------------------------
\* C18  Arming order.  The two lists exist from construction on, and a
\* callback runs only on a listener that start() has armed.  In start()
\* the mouse listener and then the keyboard listener are armed before the
\* data thread is created, and the data thread is started last, so the
\* data thread never exists beside a listener that is not yet armed.  In
\* stop() the stop event is set first, then the mouse listener and the
\* keyboard listener are disarmed, and only then is the data thread joined.
\* ---------------------------------------------------------------------
C18_ArmingOrder ==
    /\ [](/\ DOMAIN mouse_events = 1 .. Len(mouse_events)
          /\ DOMAIN keyboard_events = 1 .. Len(keyboard_events)
          /\ mouse_cb # None => mouse_listener # "new"
          /\ keyboard_cb # None => keyboard_listener # "new"
          /\ data_thread # "unset" =>
                 (mouse_listener # "new" /\ keyboard_listener # "new"))
    /\ [][/\ StartReaches("keyboard_start") =>
                 (startPc = "mouse_start" /\ mouse_listener' = "running")
          /\ StartReaches("create_thread") =>
                 (startPc = "keyboard_start" /\ keyboard_listener' = "running")
          /\ (data_thread # "alive" /\ data_thread' = "alive") =>
                 startPc = "thread_start"
          /\ StopReaches("mouse_stop") => stop_event'
          /\ StopReaches("keyboard_stop") =>
                 (stopPc = "mouse_stop" /\ mouse_listener' # "running")
          /\ StopReaches("join") =>
                 (stopPc = "keyboard_stop" /\ keyboard_listener' # "running")
          /\ (stopPc # "idle" /\ stopPc' = "idle") => stopPc = "join"]_vars

\* a stop() that follows a completed start() has set the stop event and
\* disarmed both sources and now waits for the data thread, which is still
\* alive; a callback has written to the buffer
C18_Witness ==
    /\ stopPc = "join" /\ startPc = "idle"
    /\ stop_event
    /\ mouse_listener = "stopped" /\ keyboard_listener = "stopped"
    /\ data_thread = "alive"
    /\ Buffered # {}

\* the post in flight raises in this step
PostRaises ==
    /\ flushPc = "wait"
    /\ Len(posts') = Len(posts) + 1
    /\ posts'[Len(posts')].outcome = "exception"

\* the data thread serialises the body of a transmission in this step
Serialises == flushPc = "send" /\ flushPc' = "wait"

\* the latest post raised and the data thread has not yet serialised the
\* next body
AfterRaise == LastRaised /\ data_thread = "alive" /\ flushPc \in {"check", "sleep", "send"}

\* ---------------------------------------------------------------------
\* C19  Buffer kept on a request exception: the step in which the post
\* raises changes neither list and returns to the loop head; from there to
\* the next transmission the two lists only grow by appends; and the body
\* of the next transmission is the whole buffer, which begins with the
\* events of the failed cycle and continues with those recorded since.
\* ---------------------------------------------------------------------
C19_ExceptionKeepsBuffer ==
    /\ [][PostRaises =>
              /\ mouse_events' = mouse_events
              /\ keyboard_events' = keyboard_events
              /\ IsPrefix(body.mouse_data, mouse_events)
              /\ IsPrefix(body.keyboard_data, keyboard_events)
              /\ flushPc' = "check"]_vars
    /\ [][AfterRaise =>
              /\ IsPrefix(mouse_events, mouse_events')
              /\ IsPrefix(keyboard_events, keyboard_events')]_vars
    /\ [][(AfterRaise /\ Serialises) =>
              /\ body'.mouse_data = mouse_events
              /\ body'.keyboard_data = keyboard_events
              /\ IsPrefix(posts[Len(posts)].body.mouse_data, body'.mouse_data)
              /\ IsPrefix(posts[Len(posts)].body.keyboard_data, body'.keyboard_data)]_vars

\* the post of the previous cycle raised, and the request now in flight
\* carries its events followed by one recorded since
C19_Witness ==
    /\ LastRaised
    /\ data_thread = "alive" /\ flushPc = "wait"
    /\ BodyStamps(posts[Len(posts)].body) # {}
    /\ BodyStamps(posts[Len(posts)].body) \subseteq BodyStamps(body)
    /\ BodyStamps(body) \ BodyStamps(posts[Len(posts)].body) # {}

\* a stop() is in progress that was called after a completed start(), and
\* no start() has run beside it so far
StopAfterStart ==
    /\ stopPc # "idle"
    /\ Alone(LastCall("stop"))
    /\ \E i \in DOMAIN calls :
           i < LastCall("stop") /\ calls[i].op = "start" /\ calls[i].result = "ok"

\* the last stop() has returned, or a start() has run beside it
StopReturnedOrOverlapped ==
    \/ stopPc = "idle"
    \/ ~Alone(LastCall("stop"))

\* ---------------------------------------------------------------------
\* C20  stop() terminates: a stop() called after a completed start(), with
\* no start() running beside it, eventually returns (under Fairness), and
\* it returns normally with the data thread finished.  From
\* the setting of the stop event on, the data thread ends at most one more
\* sleep: once it has woken with the event set it never sleeps again.
\* ---------------------------------------------------------------------
C20_StopTerminates ==
    /\ StopAfterStart ~> StopReturnedOrOverlapped
    /\ []((StopAfterStart /\ h.timerAfterSignal /\ data_thread = "alive") =>
              flushPc # "sleep")
    /\ []((/\ stopPc = "idle" /\ calls # <<>> /\ calls[Len(calls)].op = "stop"
           /\ Alone(Len(calls))
           /\ \E i \in DOMAIN calls : calls[i].op = "start" /\ calls[i].result = "ok") =>
              (calls[Len(calls)].result = "ok" /\ data_thread = "finished"))

\* a stop() that followed a completed start() has returned normally after
\* the data thread woke once with the stop event set and made a post
C20_Witness ==
    /\ stopPc = "idle" /\ startPc = "idle"
    /\ Len(calls) = 2
    /\ calls[1].op = "start" /\ calls[1].result = "ok" /\ Alone(1)
    /\ calls[2].op = "stop" /\ calls[2].result = "ok" /\ Alone(2)
    /\ h.timerAfterSignal
    /\ data_thread = "finished"
    /\ posts # <<>>

====
